---------------------------- MODULE Spec2Model ----------------------------
(***************************************************************************)
(* The /api/chatai request handler (src/app/api/chatai/route.ts): request  *)
(* validation, prompt composition, the external completion call, response  *)
(* parsing, roadmap normalization and the process-wide memory.             *)
(*                                                                         *)
(* JavaScript values are tagged records.  A text is a sequence of pieces;  *)
(* a piece is a one-character string or a literal of the program (or of    *)
(* JSON) that is never taken apart.  The only pieces holding a brace are   *)
(* the one-character pieces "{" and "}".                                   *)
(***************************************************************************)
EXTENDS Integers, Sequences, FiniteSets, TLC

(***************************************************************************)
(* JavaScript values                                                       *)
(***************************************************************************)
Undef == [t |-> "undefined"]
JNull == [t |-> "null"]
JBool(b) == [t |-> "boolean", b |-> b]
JNum(n) == [t |-> "number", n |-> n]
JStr(s) == [t |-> "string", s |-> s]
JArr(a) == [t |-> "array", a |-> a]
JObj(o) == [t |-> "object", o |-> o]

\* A thrown exception, as the value of the expression that throws.
Thrown(e) == [t |-> "throw", e |-> e]

IsThrown(v) == v.t = "throw"

\* ToBoolean: what `!x`, `x || y` and `x ? a : b` test.
Truthy(v) ==
    CASE v.t = "undefined" -> FALSE
      [] v.t = "null" -> FALSE
      [] v.t = "boolean" -> v.b
      [] v.t = "number" -> v.n # 0
      [] v.t = "string" -> v.s # <<>>
      [] OTHER -> TRUE

\* x || y
OrElse(x, y) == IF Truthy(x) THEN x ELSE y

\* v.k on a value that is neither null nor undefined: an own property of an
\* object, undefined on everything else the model holds.
Prop(v, k) ==
    IF v.t = "object" /\ k \in DOMAIN v.o THEN v.o[k] ELSE Undef

\* v?.k
OptProp(v, k) ==
    IF v.t \in {"undefined", "null"} THEN Undef ELSE Prop(v, k)

\* v?.[0]
OptFirst(v) ==
    CASE v.t = "array" /\ v.a # <<>> -> v.a[1]
      [] v.t = "string" /\ v.s # <<>> -> JStr(<<v.s[1]>>)
      [] OTHER -> Undef

\* Array.isArray
IsArray(v) == v.t = "array"

(***************************************************************************)
(* Texts                                                                   *)
(***************************************************************************)
\* The characters String.prototype.trim strips and the regular expression
\* class \s matches.
IsSpace(c) == c \in {" ", "\t", "\n"}

RECURSIVE TrimStart(_)
TrimStart(s) ==
    IF s # <<>> /\ IsSpace(Head(s)) THEN TrimStart(Tail(s)) ELSE s

RECURSIVE TrimEnd(_)
TrimEnd(s) ==
    IF s # <<>> /\ IsSpace(s[Len(s)]) THEN TrimEnd(SubSeq(s, 1, Len(s) - 1)) ELSE s

\* String.prototype.trim
Trim(s) == TrimEnd(TrimStart(s))

\* Array.prototype.join
RECURSIVE Join(_, _)
Join(texts, sep) ==
    IF texts = <<>> THEN <<>>
    ELSE IF Len(texts) = 1 THEN texts[1]
    ELSE texts[1] \o sep \o Join(Tail(texts), sep)

\* Array.prototype.slice(-n)
SliceLast(a, n) ==
    IF Len(a) <= n THEN a ELSE SubSeq(a, Len(a) - n + 1, Len(a))

\* The number pieces of a text, and their values.
NumberLiteral == ("0" :> 0) @@ ("7" :> 7)

\* String(v) of a template literal, for the values a reply can hold.
ToText(v) ==
    CASE v.t = "string" -> v.s
      [] v.t = "number" -> <<CHOOSE p \in DOMAIN NumberLiteral : NumberLiteral[p] = v.n>>
      [] OTHER -> <<v.t>>

IsPrefix(p, s) == Len(p) <= Len(s) /\ SubSeq(s, 1, Len(p)) = p

IsSuffix(p, s) == Len(p) <= Len(s) /\ SubSeq(s, Len(s) - Len(p) + 1, Len(s)) = p

(***************************************************************************)
(* Module constants                                                        *)
(***************************************************************************)
validModes == {JStr(<<"eli5">>), JStr(<<"normal">>), JStr(<<"expert">>)}

MemoryCap == 5

(***************************************************************************)
(* Prompt composition                                                      *)
(***************************************************************************)
buildSystemMessage == <<"You are a friendly, clear, and trustworthy teaching assistant. ...">>

explanationInstruction(mode) ==
    IF mode = JStr(<<"eli5">>)
    THEN <<"Explain simply for a child. Use a short analogy, clear words, and 2-3 short sentences.">>
    ELSE IF mode = JStr(<<"expert">>)
    THEN <<"Give a detailed, technical explanation with key terms, examples, and next-step references.">>
    ELSE <<"Explain clearly for a beginner. Define terms and give one example.">>

roadmapInstruction(wantRoadmap) ==
    IF Truthy(wantRoadmap)
    THEN <<"\n\nThen create a roadmap as a simple flowchart (6-8 steps). ...">>
    ELSE <<>>

jsonInstruction(wantRoadmap) ==
    <<"\nFormat your entire output as a JSON object with these keys:\n- \"summary\"...\n- \"explanation\"...\n">>
    \o (IF Truthy(wantRoadmap)
        THEN <<"- \"roadmap\": an array of roadmap steps, each with {stepName, action, timeEstimate, resources, exercise}">>
        ELSE <<>>)
    \o <<"\nDo not include anything outside the JSON object.\n">>

buildPromptFromInputs(message, mode, wantRoadmap) ==
    explanationInstruction(mode) \o roadmapInstruction(wantRoadmap)
    \o <<"\n\nUser query: \"">> \o message
    \o <<"\"\n\nFirst, plan the structure in your head. Then present the answer cleanly.\n">>
    \o jsonInstruction(wantRoadmap)

Digit == <<"1", "2", "3", "4", "5">>

\* `Previous Q${i + 1}: "${ex.message}"\nPrevious A${i + 1}: "${ex.reply}"`
RenderExchange(ex, i) ==
    <<"Previous Q", Digit[i], ": \"">> \o ex.message
    \o <<"\"\nPrevious A", Digit[i], ": \"">> \o ToText(ex.reply) \o <<"\"">>

\* memory.slice(-5).map(...).join("\n")
PreviousExchanges(mem) ==
    LET recent == SliceLast(mem, 5)
    IN  Join([i \in 1..Len(recent) |-> RenderExchange(recent[i], i)], <<"\n">>)

\* (previousExchanges ? previousExchanges + "\n\n" : "") + userPrompt
FullPrompt(previousExchanges, userPrompt) ==
    (IF previousExchanges # <<>> THEN previousExchanges \o <<"\n\n">> ELSE <<>>)
    \o userPrompt

(***************************************************************************)
(* JSON.parse, on the JSON token pieces                                    *)
(*   structural:  {  }  [  ]  ,  :                                         *)
(*   a string:    a quoted literal piece, or " characters "                *)
(*   a number:    a number piece;   null, true, false                      *)
(* Object keys are quoted literal pieces.  White space between tokens is   *)
(* skipped.                                                                *)
(***************************************************************************)
StringLiteral ==
    ("\"explanation\"" :> "explanation") @@ ("\"summary\"" :> "summary")
    @@ ("\"roadmap\"" :> "roadmap") @@ ("\"stepName\"" :> "stepName")
    @@ ("\"action\"" :> "action") @@ ("\"timeEstimate\"" :> "timeEstimate")
    @@ ("\"resources\"" :> "resources") @@ ("\"exercise\"" :> "exercise")
    @@ ("\"title\"" :> "title") @@ ("\"url\"" :> "url")
    @@ ("\"link\"" :> "link") @@ ("\"x\"" :> "x") @@ ("\"\"" :> "")

ParseFail == [ok |-> FALSE, v |-> Undef, i |-> 0]

ParseOk(v, i) == [ok |-> TRUE, v |-> v, i |-> i]

\* The text of a string literal: the empty string is the empty text.
LiteralText(p) == IF StringLiteral[p] = "" THEN <<>> ELSE <<StringLiteral[p]>>

RECURSIVE SkipSpace(_, _)
SkipSpace(s, i) ==
    IF i <= Len(s) /\ IsSpace(s[i]) THEN SkipSpace(s, i + 1) ELSE i

\* The characters of a string up to its closing quote.
RECURSIVE ParseChars(_, _, _)
ParseChars(s, i, acc) ==
    IF i > Len(s) THEN ParseFail
    ELSE IF s[i] = "\"" THEN ParseOk(JStr(acc), i + 1)
    ELSE IF s[i] \in {"\n", "\t"} THEN ParseFail
    ELSE ParseChars(s, i + 1, Append(acc, s[i]))

RECURSIVE ParseValue(_, _)
RECURSIVE ParseMembers(_, _, _)
RECURSIVE ParseElements(_, _, _)

\* members after "{" or ",": key : value, then "," or "}".  A repeated key
\* keeps its last value.
ParseMembers(s, i, acc) ==
    LET k == SkipSpace(s, i)
    IN  IF k > Len(s) \/ s[k] \notin DOMAIN StringLiteral THEN ParseFail
        ELSE LET c == SkipSpace(s, k + 1)
             IN  IF c > Len(s) \/ s[c] # ":" THEN ParseFail
                 ELSE LET r == ParseValue(s, c + 1)
                          n == SkipSpace(s, r.i)
                          o == (StringLiteral[s[k]] :> r.v) @@ acc
                      IN  IF ~r.ok \/ n > Len(s) THEN ParseFail
                          ELSE IF s[n] = "}" THEN ParseOk(JObj(o), n + 1)
                          ELSE IF s[n] = "," THEN ParseMembers(s, n + 1, o)
                          ELSE ParseFail

\* elements after "[" or ",": value, then "," or "]".
ParseElements(s, i, acc) ==
    LET r == ParseValue(s, i)
        n == SkipSpace(s, r.i)
    IN  IF ~r.ok \/ n > Len(s) THEN ParseFail
        ELSE IF s[n] = "]" THEN ParseOk(JArr(Append(acc, r.v)), n + 1)
        ELSE IF s[n] = "," THEN ParseElements(s, n + 1, Append(acc, r.v))
        ELSE ParseFail

ParseValue(s, i) ==
    LET j == SkipSpace(s, i)
    IN  IF j > Len(s) THEN ParseFail
        ELSE CASE s[j] = "{" ->
                    LET k == SkipSpace(s, j + 1)
                    IN  IF k <= Len(s) /\ s[k] = "}" THEN ParseOk(JObj(<<>>), k + 1)
                        ELSE ParseMembers(s, j + 1, <<>>)
               [] s[j] = "[" ->
                    LET k == SkipSpace(s, j + 1)
                    IN  IF k <= Len(s) /\ s[k] = "]" THEN ParseOk(JArr(<<>>), k + 1)
                        ELSE ParseElements(s, j + 1, <<>>)
               [] s[j] = "\"" -> ParseChars(s, j + 1, <<>>)
               [] s[j] \in DOMAIN StringLiteral -> ParseOk(JStr(LiteralText(s[j])), j + 1)
               [] s[j] \in DOMAIN NumberLiteral -> ParseOk(JNum(NumberLiteral[s[j]]), j + 1)
               [] s[j] = "null" -> ParseOk(JNull, j + 1)
               [] s[j] = "true" -> ParseOk(JBool(TRUE), j + 1)
               [] s[j] = "false" -> ParseOk(JBool(FALSE), j + 1)
               [] OTHER -> ParseFail

\* JSON.parse(text): the value, or a SyntaxError when the text is not one
\* JSON value.
JSONParse(s) ==
    LET r == ParseValue(s, 1)
    IN  IF r.ok /\ SkipSpace(s, r.i) > Len(s) THEN r.v ELSE Thrown("SyntaxError")

(***************************************************************************)
(* Response parsing (route.ts lines 139-148)                               *)
(***************************************************************************)
IndicesOf(s, c) == {i \in 1..Len(s) : s[i] = c}

Min(S) == CHOOSE x \in S : \A y \in S : x <= y

Max(S) == CHOOSE x \in S : \A y \in S : x >= y

\* A match of /\{[\s\S]*\}/ by the other reading of the quantifier: from the
\* first "{" to the nearest "}" after it.
JsonMatchLazy(s) ==
    LET opens == IndicesOf(s, "{")
        closes == IndicesOf(s, "}")
    IN  IF opens = {} \/ {j \in closes : j > Min(opens)} = {} THEN JNull
        ELSE JStr(SubSeq(s, Min(opens), Min({j \in closes : j > Min(opens)})))

\* content.match(/\{[\s\S]*\}/): null, or the match from the first "{" to the
\* last "}" after it.
JsonMatch(s) ==
    LET opens == IndicesOf(s, "{")
        closes == IndicesOf(s, "}")
    IN  IF opens = {} \/ closes = {} \/ Max(closes) < Min(opens) THEN JNull
        ELSE JStr(SubSeq(s, Min(opens), Max(closes)))

\* data?.choices?.[0]?.message?.content, without the fallback to "".
ContentNoDefault(data) ==
    OptProp(OptProp(OptFirst(OptProp(data, "choices")), "message"), "content")

\* data?.choices?.[0]?.message?.content || ""
Content(data) ==
    OrElse(OptProp(OptProp(OptFirst(OptProp(data, "choices")), "message"), "content"),
           JStr(<<>>))

\* The degraded reply { explanation: content }.
Degraded(content) == JObj("explanation" :> content)

\* Lines 142-148: the try block and its catch.  content.match of a value
\* that is no string throws inside the try, as JSON.parse of a malformed
\* match does.
ParseReply(content) ==
    IF content.t # "string" THEN Degraded(content)
    ELSE LET jsonMatch == JsonMatch(content.s)
         IN  IF ~Truthy(jsonMatch) THEN Degraded(content)
             ELSE LET parsed == JSONParse(jsonMatch.s)
                  IN  IF IsThrown(parsed) THEN Degraded(content) ELSE parsed

(***************************************************************************)
(* Roadmap normalization (route.ts lines 71-90)                            *)
(***************************************************************************)
MatchAt(s, i, pat) ==
    i + Len(pat) - 1 <= Len(s) /\ SubSeq(s, i, i + Len(pat) - 1) = pat

\* https?:\/\/ at index i
SchemeAt(s, i) ==
    \/ MatchAt(s, i, <<"h", "t", "t", "p", ":", "/", "/">>)
    \/ MatchAt(s, i, <<"h", "t", "t", "p", "s", ":", "/", "/">>)

\* /,(?=\s*https?:\/\/)/ matches at index i
IsSeparator(s, i) == s[i] = "," /\ SchemeAt(s, SkipSpace(s, i + 1))

\* res.split(/,(?=\s*https?:\/\/)/): the pieces between all the matches.
RECURSIVE SplitFrom(_, _, _)
SplitFrom(s, start, i) ==
    IF i > Len(s) THEN <<SubSeq(s, start, Len(s))>>
    ELSE IF IsSeparator(s, i)
    THEN <<SubSeq(s, start, i - 1)>> \o SplitFrom(s, i + 1, i + 1)
    ELSE SplitFrom(s, start, i + 1)

\* A split that stops at the first match and keeps the rest whole.
SplitResourceOnce(s) ==
    LET at == {i \in 1..Len(s) : IsSeparator(s, i)}
    IN  IF at = {} THEN <<s>>
        ELSE <<SubSeq(s, 1, Min(at) - 1), SubSeq(s, Min(at) + 1, Len(s))>>

SplitResource(s) == SplitFrom(s, 1, 1)

Resource(title, url) == JObj(("title" :> JStr(title)) @@ ("url" :> JStr(url)))

\* Lines 78-86: one entry of step.resources.
NormalizeResource(res) ==
    IF res.t = "string"
    THEN LET parts == SplitResource(res.s)
             title == parts[1]
         IN  IF Len(parts) >= 2 /\ parts[2] # <<>>
             THEN Resource(IF Trim(title) # <<>> THEN Trim(title) ELSE Trim(parts[2]),
                           Trim(parts[2]))
             ELSE Resource(Trim(res.s), <<>>)
    ELSE res

\* Lines 73-89: one entry of the roadmap array, neither null nor undefined.
NormalizeStep(step) ==
    LET resources == Prop(step, "resources")
    IN  JObj(("stepName" :> OrElse(Prop(step, "stepName"), JStr(<<>>)))
             @@ ("action" :> OrElse(Prop(step, "action"), JStr(<<>>)))
             @@ ("timeEstimate" :> OrElse(Prop(step, "timeEstimate"), JStr(<<>>)))
             @@ ("resources" :>
                    IF IsArray(resources)
                    THEN JArr([i \in 1..Len(resources.a) |-> NormalizeResource(resources.a[i])])
                    ELSE JArr(<<>>))
             @@ ("exercise" :> OrElse(Prop(step, "exercise"), JStr(<<>>))))

\* normalizeRoadmap: reading a property of a null entry throws a TypeError.
normalizeRoadmap(roadmap) ==
    IF ~IsArray(roadmap) THEN JArr(<<>>)
    ELSE IF \E i \in 1..Len(roadmap.a) : roadmap.a[i].t \in {"null", "undefined"}
    THEN Thrown("TypeError")
    ELSE JArr([i \in 1..Len(roadmap.a) |-> NormalizeStep(roadmap.a[i])])

(***************************************************************************)
(* State                                                                   *)
(***************************************************************************)
VARIABLES
    token,      \* process.env.GROQ_API_KEY, read once when the module loads
    memory,     \* the process-wide array of { message, reply }
    reqs,       \* the requests in flight, one per slot
    answered,   \* the request answered last, with its response
    nStarted,   \* the number of requests received so far
    appended    \* history: every exchange pushed to memory, in push order

vars == <<token, memory, reqs, answered, nStarted, appended>>

\* The most requests in flight at once, and the most requests of a run.
MaxInFlight == 2

MaxReq == 7

Slots == 1..MaxInFlight

NoResponse == [status |-> 0, body |-> Undef]

\* A slot with no request, and the locals of POST before they are assigned.
Idle ==
    [pc |-> "idle", body |-> Undef, calls |-> <<>>, groqRes |-> Undef,
     data |-> Undef, content |-> Undef,
     jsonReply |-> Undef, normalized |-> Undef, response |-> NoResponse]

\* JSON.stringify of an object: a key whose value is undefined is left out.
Serialize(o) == [k \in {k \in DOMAIN o : o[k].t # "undefined"} |-> o[k]]

\* NextResponse.json(body, { status })
Respond(q, status, body) ==
    [q EXCEPT !.pc = "done", !.response = [status |-> status, body |-> JObj(Serialize(body))]]

\* Line 163: the catch of the whole handler.
ServerError(q, err) ==
    Respond(q, 500, ("error" :> JStr(<<"Server error">>)) @@ ("details" :> JStr(<<err>>)))

\* body?.message without the trim.
MessageNoTrim(body) ==
    LET message == OptProp(body, "message")
    IN  CASE message.t \in {"undefined", "null"} -> Undef
          [] message.t = "string" -> JStr(message.s)
          [] OTHER -> Thrown("TypeError")

\* body?.message?.trim(): undefined when body or message is null or
\* undefined, a TypeError when message is a value without a trim method.
MessageTrim(body) ==
    LET message == OptProp(body, "message")
    IN  CASE message.t \in {"undefined", "null"} -> Undef
          [] message.t = "string" -> JStr(Trim(message.s))
          [] OTHER -> Thrown("TypeError")

\* Lines 155-156 with the bound of the shift left out.
MemoryPushNoShift(mem, ex) == Append(mem, ex)

\* Lines 155-156: memory.push(...); if (memory.length > 5) memory.shift()
MemoryPush(mem, ex) ==
    LET pushed == Append(mem, ex)
    IN  IF Len(pushed) > MemoryCap THEN Tail(pushed) ELSE pushed

(***************************************************************************)
(* POST, one action for each stretch between two awaits                    *)
(***************************************************************************)
\* The handler of slot r goes on as q: a handler that has returned its
\* response leaves the slot and becomes the request answered last.
Continue(r, q) ==
    \E next \in {q} :
        IF next.pc = "done"
        THEN reqs' = [reqs EXCEPT ![r] = Idle] /\ answered' = next
        ELSE reqs' = [reqs EXCEPT ![r] = next] /\ UNCHANGED answered

\* Line 94: the handler starts and awaits req.json(); `body` is what that
\* promise settles to (a rejection when the payload is no JSON).
PostStart(r, body) ==
    /\ reqs[r].pc = "idle"
    /\ reqs' = [reqs EXCEPT ![r] = [Idle EXCEPT !.pc = "body", !.body = body]]
    /\ nStarted' = nStarted + 1
    /\ UNCHANGED <<token, memory, answered, appended>>

\* Lines 94-121: validation, prompt composition and the start of the fetch.
\* The user turn of the call is userPrompt; fullPrompt (lines 117-119) is
\* computed and not used.
PostBody(r) ==
    LET q == reqs[r]
        body == q.body
        trimmed == MessageTrim(body)
        userPrompt == buildPromptFromInputs(trimmed.s, Prop(body, "mode"),
                                            Prop(body, "wantRoadmap"))
    IN  /\ q.pc = "body"
        /\ Continue(r,
              IF IsThrown(body) THEN ServerError(q, body.e)
              ELSE IF IsThrown(trimmed) THEN ServerError(q, trimmed.e)
              ELSE IF ~Truthy(trimmed)
              THEN Respond(q, 400,
                      "error" :> JStr(<<"Missing or empty 'message' in request body">>))
              ELSE IF Prop(body, "mode") \notin validModes
              THEN Respond(q, 400,
                      "error" :> JStr(<<"Invalid 'mode'. Must be one of: ", "eli5, normal, expert">>))
              ELSE IF ~Truthy(token)
              THEN Respond(q, 500,
                      "error" :> JStr(<<"Server misconfiguration: missing GROQ_API_KEY">>))
              ELSE [q EXCEPT !.pc = "fetch",
                             !.calls = <<[system |-> buildSystemMessage,
                                          user |-> userPrompt]>>])
        /\ UNCHANGED <<token, memory, nStarted, appended>>

\* Lines 121-139: the fetch settles; a rejection goes to the catch, a response
\* starts groqRes.json().
PostFetched(r, settled) ==
    LET q == reqs[r]
    IN  /\ q.pc = "fetch"
        /\ Continue(r,
              IF settled = "rejected" THEN ServerError(q, "TypeError: fetch failed")
              ELSE [q EXCEPT !.pc = "json", !.groqRes = JObj("ok" :> JBool(TRUE))])
        /\ UNCHANGED <<token, memory, nStarted, appended>>

\* Lines 139-164: groqRes.json() settles to `data` (a rejection when the body
\* is no JSON); parsing, normalization, the memory write and the response.
\* content, jsonReply and normalized (jsonReply.roadmap after line 152) are
\* bound once, as the locals they are.
PostData(r, data) ==
    /\ reqs[r].pc = "json"
    /\ \E content \in {Content(data)} :
       \E jsonReply \in {ParseReply(content)} :
       \E normalized \in {IF Truthy(Prop(jsonReply, "roadmap"))
                          THEN normalizeRoadmap(Prop(jsonReply, "roadmap"))
                          ELSE Prop(jsonReply, "roadmap")} :
          LET q == reqs[r]
              exchange == [message |-> MessageTrim(q.body).s, reply |-> content]
          IN  IF IsThrown(data)
              THEN /\ Continue(r, ServerError(q, data.e))
                   /\ UNCHANGED <<memory, appended>>
              ELSE IF IsThrown(normalized)
              THEN /\ Continue(r,
                         ServerError([q EXCEPT !.data = data, !.content = content,
                                               !.jsonReply = jsonReply],
                                     normalized.e))
                   /\ UNCHANGED <<memory, appended>>
              ELSE /\ memory' = MemoryPush(memory, exchange)
                   /\ appended' = Append(appended, exchange)
                   /\ Continue(r,
                         Respond([q EXCEPT !.data = data, !.content = content,
                                           !.jsonReply = jsonReply,
                                           !.normalized = normalized],
                                 200,
                                 ("explanation" :> Prop(jsonReply, "explanation"))
                                 @@ ("roadmap" :> OrElse(normalized, Undef))))
    /\ UNCHANGED <<token, nStarted>>

(***************************************************************************)
(* Inputs                                                                  *)
(***************************************************************************)
\* A request payload { message, mode, wantRoadmap }; Undef leaves a key out.
Payload(message, mode, wantRoadmap) ==
    JObj(Serialize(("message" :> message) @@ ("mode" :> mode)
                   @@ ("wantRoadmap" :> wantRoadmap)))

\* The provider's response body whose first choice carries `content`.
Completion(content) ==
    JObj("choices" :> JArr(<<JObj("message" :>
            JObj(("role" :> JStr(<<"assistant">>)) @@ ("content" :> content)))>>))

Tokens == {JStr(<<"gsk_key">>), Undef}

\* The concurrent specification: a question and a blank message; a
\* completion in prose, a body without choices, an unreadable body, and a
\* completion whose roadmap makes normalizeRoadmap throw.
Bodies ==
    {Payload(JStr(<<" ", "a">>), JStr(<<"eli5">>), Undef),
     Payload(JStr(<<" ">>), JStr(<<"normal">>), Undef)}

Datas ==
    {Completion(JStr(<<"t">>)), JObj("error" :> JStr(<<"x">>)), Thrown("SyntaxError"),
     Completion(JStr(<<"{", "\"roadmap\"", ":", "[", "null", "]", "}">>))}

(***************************************************************************)
(* Spec: requests in flight together, sharing the memory                   *)
(***************************************************************************)
Init ==
    /\ token \in Tokens
    /\ memory = <<>>
    /\ reqs = [r \in Slots |-> Idle]
    /\ answered = Idle
    /\ nStarted = 0
    /\ appended = <<>>

\* A new request takes the lowest free slot.
Receive ==
    \E r \in Slots, body \in Bodies :
        /\ nStarted < MaxReq
        /\ \A r2 \in 1..(r - 1) : reqs[r2].pc # "idle"
        /\ PostStart(r, body)

Validate == \E r \in Slots : PostBody(r)

Fetched == \E r \in Slots, settled \in {"resolved", "rejected"} : PostFetched(r, settled)

Answered == \E r \in Slots, data \in Datas : PostData(r, data)

Next == Receive \/ Validate \/ Fetched \/ Answered

Spec == Init /\ [][Next]_vars

(***************************************************************************)
(* SpecReq: the first request of a process, over the payloads a client     *)
(* can send and the bodies the provider can answer with                    *)
(***************************************************************************)
\* JSON texts, as the pieces JSON.parse reads.
JsonObject(members) == <<"{">> \o Join(members, <<",">>) \o <<"}">>

JsonArray(elements) == <<"[">> \o Join(elements, <<",">>) \o <<"]">>

Member(key, value) == <<key, ":">> \o value

ExplanationX == Member("\"explanation\"", <<"\"x\"">>)

\* {"explanation":"x","roadmap":<value>}
WithRoadmap(value) == JsonObject(<<ExplanationX, Member("\"roadmap\"", value)>>)

\* A roadmap step with every field, whose resources are the given texts.
FullStep(resources) ==
    JsonObject(<<Member("\"stepName\"", <<"\"x\"">>), Member("\"action\"", <<"\"x\"">>),
                 Member("\"timeEstimate\"", <<"\"x\"">>),
                 Member("\"resources\"", JsonArray(resources)),
                 Member("\"exercise\"", <<"\"x\"">>)>>)

Quoted(chars) == <<"\"">> \o chars \o <<"\"">>

Http == <<"h", "t", "t", "p", ":", "/", "/">>

Https == <<"h", "t", "t", "p", "s", ":", "/", "/">>

ReqMessages ==
    {Undef, JNull, JStr(<<>>), JStr(<<" ">>), JStr(<<" ", "\t", "\n">>),
     JStr(<<"q">>), JStr(<<" ", "q", " ">>), JNum(7)}

ReqModes ==
    validModes \cup {Undef, JStr(<<"ELI5">>), JNum(7)}

ReqBodies ==
    {Payload(m, mode, w) : m \in ReqMessages, mode \in ReqModes,
                           w \in {Undef, JBool(FALSE), JBool(TRUE)}}
    \cup {JNull, Thrown("SyntaxError")}

ReqContents ==
    {<<>>,
     <<"t">>,
     JsonObject(<<ExplanationX>>),
     <<"t", " ">> \o JsonObject(<<ExplanationX>>) \o <<" ", "t">>,
     JsonObject(<<Member("\"summary\"", <<"\"x\"">>)>>),
     JsonObject(<<Member("\"explanation\"", <<"7">>)>>),
     <<"{", "\"explanation\"", ":">>,
     WithRoadmap(JsonArray(<<>>)),
     WithRoadmap(<<"\"x\"">>),
     WithRoadmap(<<"null">>),
     WithRoadmap(JsonArray(<<<<"null">>>>)),
     WithRoadmap(JsonArray(<<<<"7">>, <<"\"x\"">>, JsonObject(<<>>)>>)),
     WithRoadmap(JsonArray(<<JsonObject(<<Member("\"resources\"", <<"\"x\"">>)>>)>>)),
     WithRoadmap(JsonArray(<<FullStep(<<Quoted(<<"x", ",", " ">> \o Https \o <<"x">>)>>)>>)),
     WithRoadmap(JsonArray(<<FullStep(<<
         <<"\"x\"">>, <<"7">>, <<"null">>,
         JsonObject(<<Member("\"link\"", <<"\"x\"">>)>>),
         JsonObject(<<Member("\"title\"", <<"\"x\"">>), Member("\"url\"", <<"\"x\"">>)>>)>>)>>))}

ReqDatas ==
    {Completion(JStr(c)) : c \in ReqContents}
    \cup {Completion(JNull), Completion(JNum(7)), JNull,
          JObj("error" :> JStr(<<"x">>)), JObj("choices" :> JArr(<<>>)),
          Thrown("SyntaxError")}

ReceiveReq == nStarted = 0 /\ \E body \in ReqBodies : PostStart(1, body)

AnsweredReq == reqs[1].pc = "json" /\ \E data \in ReqDatas : PostData(1, data)

NextReq == ReceiveReq \/ Validate \/ Fetched \/ AnsweredReq

SpecReq == Init /\ [][NextReq]_vars

(***************************************************************************)
(* SpecParse: the first request of a process, over completion texts with   *)
(* prose and stray braces around a JSON text                               *)
(***************************************************************************)
\* The longest run of pieces put before and after the middle of a text.
MaxPad == 2

PadPieces == {"t", "{", "}"}

Pads == UNION {[1..n -> PadPieces] : n \in 0..MaxPad}

Middles ==
    {<<>>,
     <<"t">>,
     ExplanationX,
     JsonObject(<<>>),
     JsonObject(<<ExplanationX>>),
     <<"{", " ">> \o ExplanationX \o <<"\n", "}">>,
     JsonObject(<<ExplanationX, Member("\"summary\"", <<"\"x\"">>)>>),
     JsonObject(<<Member("\"x\"", JsonObject(<<ExplanationX>>))>>),
     JsonObject(<<ExplanationX>>) \o <<" ">> \o JsonObject(<<ExplanationX>>),
     <<"{", "\"explanation\"", ":">>,
     <<"{", "\"explanation\"", "}">>,
     JsonArray(<<JsonObject(<<ExplanationX>>)>>),
     WithRoadmap(JsonArray(<<<<"null">>>>))}

ParseContents == {before \o middle \o after : before \in Pads, middle \in Middles, after \in Pads}

ParseBodies ==
    {Payload(JStr(<<"q">>), JStr(<<"normal">>), JBool(FALSE)),
     Payload(JStr(<<"q">>), JStr(<<"expert">>), JBool(TRUE))}

ReceiveParse == nStarted = 0 /\ \E body \in ParseBodies : PostStart(1, body)

AnsweredParse ==
    /\ reqs[1].pc = "json"
    /\ \E c \in ParseContents : \E data \in {Completion(JStr(c))} : PostData(1, data)

NextParse == ReceiveParse \/ Validate \/ Fetched \/ AnsweredParse

SpecParse == Init /\ [][NextParse]_vars

(***************************************************************************)
(* SpecNorm: the first request of a process, answered with a roadmap of    *)
(* one step whose one resource is a text string                            *)
(***************************************************************************)
\* The most fragments a resource string is put together from.
MaxFrags == 5

Fragments == {<<"a">>, <<" ">>, <<",">>, Http, Https, <<"h", "t", "t", "p">>}

RECURSIVE Concat(_)
Concat(texts) == IF texts = <<>> THEN <<>> ELSE Head(texts) \o Concat(Tail(texts))

ResourceStrings == {Concat(f) : f \in UNION {[1..n -> Fragments] : n \in 0..MaxFrags}}

NormBodies == {Payload(JStr(<<"q">>), JStr(<<"normal">>), JBool(TRUE))}

ReceiveNorm == nStarted = 0 /\ \E body \in NormBodies : PostStart(1, body)

AnsweredNorm ==
    /\ reqs[1].pc = "json"
    /\ \E res \in ResourceStrings :
       \E data \in {Completion(JStr(WithRoadmap(JsonArray(<<FullStep(<<Quoted(res)>>)>>))))} :
          PostData(1, data)

NextNorm == ReceiveNorm \/ Validate \/ Fetched \/ AnsweredNorm

SpecNorm == Init /\ [][NextNorm]_vars

(***************************************************************************)
(* C1  The memory holds at most 5 exchanges, and exactly the most recent   *)
(* min(n, 5) of the n exchanges appended so far, oldest first.             *)
(***************************************************************************)
C1_MemoryIsLastFive ==
    /\ Len(memory) <= 5
    /\ Len(memory) = (IF Len(appended) < 5 THEN Len(appended) ELSE 5)
    /\ \A i \in 1..Len(memory) :
          memory[i] = appended[Len(appended) - Len(memory) + i]

\* Six appends have happened with a request still in flight: the first
\* exchange is gone and the second one is the oldest kept.
C1_SixAppends ==
    /\ Len(appended) = 6
    /\ Len(memory) = 5
    /\ appended[1] # appended[2]
    /\ memory[1] = appended[2]
    /\ \E r \in Slots : reqs[r].pc \in {"fetch", "json"}

(***************************************************************************)
(* C3  A request that reaches the external call sends, as the user turn,   *)
(* the most recent (up to 5) memory exchanges rendered oldest first and    *)
(* then the user instruction; with an empty memory, the user instruction   *)
(* alone.                                                                  *)
(***************************************************************************)
C3_UserTurnCarriesMemory ==
    [][\A r \in Slots :
          (reqs[r].pc = "body" /\ reqs'[r].pc = "fetch") =>
              LET body == reqs[r].body
                  instruction == buildPromptFromInputs(MessageTrim(body).s,
                                     Prop(body, "mode"), Prop(body, "wantRoadmap"))
                  user == reqs'[r].calls[1].user
              IN  IF memory = <<>> THEN user = instruction
                  ELSE /\ IsPrefix(PreviousExchanges(memory), user)
                       /\ IsSuffix(instruction, user)
                       /\ Len(user) > Len(instruction)]_vars

(***************************************************************************)
(* C2  A request whose message is missing, empty or whitespace-only, or    *)
(* whose mode is not one of eli5/normal/expert, is answered 400; a request *)
(* that finds the credential absent is answered 500; all before any        *)
(* external call is attempted.  (Stated over the payloads that are JSON.)  *)
(***************************************************************************)
BlankMessage(body) ==
    LET message == OptProp(body, "message")
    IN  \/ message.t \in {"undefined", "null"}
        \/ message.t = "string" /\ \A i \in 1..Len(message.s) : IsSpace(message.s[i])

InvalidMode(body) ==
    OptProp(body, "mode") \notin {JStr(<<"eli5">>), JStr(<<"normal">>), JStr(<<"expert">>)}

C2_RejectedBeforeCall ==
    (answered.pc = "done" /\ ~IsThrown(answered.body)) =>
        /\ (BlankMessage(answered.body) \/ InvalidMode(answered.body)) =>
              answered.response.status = 400 /\ answered.calls = <<>>
        /\ (~BlankMessage(answered.body) /\ ~InvalidMode(answered.body) /\ ~Truthy(token)) =>
              answered.response.status = 500 /\ answered.calls = <<>>

(***************************************************************************)
(* C4  With wantRoadmap false or absent, the 200 response has no roadmap   *)
(* key, whatever the completion text.                                      *)
(***************************************************************************)
C4_NoRoadmapUnlessWanted ==
    (/\ answered.pc = "done"
     /\ answered.response.status = 200
     /\ Prop(answered.body, "wantRoadmap") \in {Undef, JBool(FALSE)}) =>
        "roadmap" \notin DOMAIN answered.response.body.o

(***************************************************************************)
(* C5  As amended: a readable provider body with no usable text gives the  *)
(* empty completion text, which is parsed, and the request ends 200 with   *)
(* the degraded reply { explanation: "" }; a transport error or an         *)
(* unreadable body aborts the request with the generic 500 response.       *)
(***************************************************************************)
\* The call was made and failed: the fetch rejected, or the body of the
\* response could not be read.
UpstreamFailed(q) ==
    q.calls # <<>> /\ (q.groqRes = Undef \/ (q.groqRes # Undef /\ q.data = Undef))

\* The body was read and its first choice carries no usable text.
NoUsableText(q) ==
    /\ q.data # Undef
    /\ LET choices == OptProp(q.data, "choices")
           first == IF IsArray(choices) /\ choices.a # <<>> THEN choices.a[1] ELSE Undef
           text == OptProp(OptProp(first, "message"), "content")
       IN  text \in {Undef, JNull, JStr(<<>>)}

EmptyDegradedReply(q) ==
    /\ q.response.status = 200
    /\ q.content = JStr(<<>>)
    /\ q.jsonReply = JObj("explanation" :> JStr(<<>>))
    /\ q.response.body = JObj("explanation" :> JStr(<<>>))

C5_EmptyTextDegradesFailureAborts ==
    answered.pc = "done" =>
        /\ NoUsableText(answered) => EmptyDegradedReply(answered)
        /\ UpstreamFailed(answered) =>
              /\ answered.response.status = 500
              /\ DOMAIN answered.response.body.o = {"error", "details"}
              /\ answered.response.body.o["error"] = JStr(<<"Server error">>)
              /\ answered.content = Undef

\* C5 as the specification states it: a failed call, like a body without usable text, ends 200
\* with the degraded reply of the empty text.
C5_FailureDegrades ==
    (answered.pc = "done" /\ (UpstreamFailed(answered) \/ NoUsableText(answered))) =>
        EmptyDegradedReply(answered)

C5_NoUsableTextAnswered ==
    /\ answered.pc = "done"
    /\ NoUsableText(answered)
    /\ answered.data # JNull
    /\ answered.response.status = 200

(***************************************************************************)
(* C7  Every 200 response carries an explanation that is a text string.    *)
(***************************************************************************)
C7_ExplanationIsText ==
    (/\ answered.pc = "done"
     /\ answered.response.status = 200
     /\ answered.content.t = "string") =>
        /\ "explanation" \in DOMAIN answered.response.body.o
        /\ answered.response.body.o["explanation"].t = "string"

(***************************************************************************)
(* C8  After normalization every entry of every step's resources has the   *)
(* { title, url } shape.                                                   *)
(***************************************************************************)
IsResourceShape(v) ==
    /\ v.t = "object"
    /\ DOMAIN v.o = {"title", "url"}
    /\ v.o["title"].t = "string"
    /\ v.o["url"].t = "string"

C8_ResourcesHaveShape ==
    (answered.pc = "done" /\ IsArray(answered.normalized)) =>
        \A i \in 1..Len(answered.normalized.a) :
            LET resources == answered.normalized.a[i].o["resources"]
            IN  \A j \in 1..Len(resources.a) : IsResourceShape(resources.a[j])

(***************************************************************************)
(* C9  Normalization is total: whatever the roadmap value of the parsed    *)
(* reply, the request is not failed; a non-array gives the empty sequence  *)
(* and an array entry gives a step with stepName, action, timeEstimate,    *)
(* exercise and resources, defaulted when the entry lacks them.            *)
(***************************************************************************)
IsStep(v) ==
    /\ v.t = "object"
    /\ DOMAIN v.o = {"stepName", "action", "timeEstimate", "resources", "exercise"}
    /\ IsArray(v.o["resources"])

C9_NormalizationTotal ==
    (answered.pc = "done" /\ answered.jsonReply # Undef) =>
        LET roadmap == Prop(answered.jsonReply, "roadmap")
        IN  /\ answered.response.status = 200
            /\ (Truthy(roadmap) /\ ~IsArray(roadmap)) => answered.normalized = JArr(<<>>)
            /\ IsArray(roadmap) =>
                  /\ IsArray(answered.normalized)
                  /\ Len(answered.normalized.a) = Len(roadmap.a)
                  /\ \A i \in 1..Len(roadmap.a) : IsStep(answered.normalized.a[i])

(***************************************************************************)
(* C6  Response parsing never raises: when the text from the first "{" to  *)
(* the last "}" parses as JSON the parsed object is the reply; otherwise   *)
(* the reply is exactly { explanation: <the whole text> } and the request  *)
(* ends 200.                                                               *)
(***************************************************************************)
C6_ParseOrDegrade ==
    (answered.pc = "done" /\ answered.content.t = "string") =>
        LET text == answered.content.s
            opens == {i \in 1..Len(text) : text[i] = "{"}
            first == CHOOSE i \in opens : \A k \in opens : i <= k
            closes == {j \in 1..Len(text) : text[j] = "}" /\ j > first}
            last == CHOOSE j \in closes : \A k \in closes : j >= k
            parsed == JSONParse(SubSeq(text, first, last))
        IN  /\ IF opens # {} /\ closes # {} /\ ~IsThrown(parsed)
               THEN answered.jsonReply = parsed
               ELSE /\ answered.jsonReply = JObj("explanation" :> answered.content)
                    /\ answered.response = [status |-> 200, body |-> answered.jsonReply]
            /\ answered.response.status # 200 =>
                  IsThrown(normalizeRoadmap(Prop(answered.jsonReply, "roadmap")))

\* A text with an opening and a later closing brace that is no JSON: the
\* whole text is the explanation of a 200 response.
C6_MalformedDegrades ==
    /\ answered.pc = "done"
    /\ answered.content.t = "string"
    /\ \E i, j \in 1..Len(answered.content.s) :
          i < j /\ answered.content.s[i] = "{" /\ answered.content.s[j] = "}"
    /\ answered.response.status = 200
    /\ answered.response.body = JObj("explanation" :> answered.content)

(***************************************************************************)
(* C10  As amended: a resource that is a text string is split at every     *)
(* comma followed by optional white space and http:// or https://.  With   *)
(* no such comma the trimmed string is the title and the url is empty.     *)
(* Otherwise the url is the trimmed text between the first such comma and  *)
(* the next one (or the end of the string), anything after the next one is *)
(* dropped, and the title is the trimmed text left of the first such comma *)
(* or, when that is empty, the url.                                        *)
(***************************************************************************)
\* The resource string of the reply and the entry normalization made of it.
RawResource(q) == q.jsonReply.o["roadmap"].a[1].o["resources"].a[1]

NormalizedResource(q) == q.normalized.a[1].o["resources"].a[1]

HasResource(q) ==
    /\ q.pc = "done"
    /\ IsArray(q.normalized)
    /\ RawResource(q).t = "string"

UrlCommas(s) ==
    {i \in 1..Len(s) :
        /\ s[i] = ","
        /\ \E j \in (i + 1)..Len(s) :
              /\ \A k \in (i + 1)..(j - 1) : IsSpace(s[k])
              /\ \/ j + 6 <= Len(s) /\ SubSeq(s, j, j + 6) = Http
                 \/ j + 7 <= Len(s) /\ SubSeq(s, j, j + 7) = Https}

C10_SplitAtUrlCommas ==
    HasResource(answered) =>
        LET s == RawResource(answered).s
            commas == UrlCommas(s)
            first == CHOOSE i \in commas : \A k \in commas : i <= k
            later == {i \in commas : i > first} \cup {Len(s) + 1}
            next == CHOOSE i \in later : \A k \in later : i <= k
            left == Trim(SubSeq(s, 1, first - 1))
            url == Trim(SubSeq(s, first + 1, next - 1))
        IN  NormalizedResource(answered) =
                IF commas = {} THEN Resource(Trim(s), <<>>)
                ELSE Resource(IF left # <<>> THEN left ELSE url, url)

\* C10 as the specification states it (white space around the two sides aside): everything
\* left of the first such comma is the title, also when it is empty, and
\* everything right of it is the url.
C10_SplitAtFirstUrlComma ==
    HasResource(answered) =>
        LET s == RawResource(answered).s
            commas == UrlCommas(s)
            first == CHOOSE i \in commas : \A k \in commas : i <= k
        IN  NormalizedResource(answered) =
                IF commas = {} THEN Resource(Trim(s), <<>>)
                ELSE Resource(Trim(SubSeq(s, 1, first - 1)),
                              Trim(SubSeq(s, first + 1, Len(s))))

\* A resource string with two such commas and a title: the url stops at the
\* second comma.
C10_TwoUrlCommas ==
    /\ HasResource(answered)
    /\ Cardinality(UrlCommas(RawResource(answered).s)) = 2
    /\ RawResource(answered).s[1] = "a"
    /\ NormalizedResource(answered).o["title"] = JStr(<<"a">>)
    /\ Len(NormalizedResource(answered).o["url"].s) < Len(RawResource(answered).s) - 2


(***************************************************************************)
(* C11  The memory changes only when a request ends with a 200 response:   *)
(* such a request appends exactly one exchange, its trimmed message paired *)
(* with the completion text as it was before parsing (also when that text  *)
(* is empty), in the order in which the external calls complete; a request *)
(* that ends with 400 or 500 leaves the memory as it was, and no append of *)
(* a request in flight at the same time is lost.                           *)
(***************************************************************************)
\* The handler of slot r returns its response in this step.
Returns(r) == reqs[r].pc # "idle" /\ reqs'[r].pc = "idle"

\* The completion text of a provider body, before any parsing.
RawText(data) ==
    LET choices == OptProp(data, "choices")
        first == IF IsArray(choices) /\ choices.a # <<>> THEN choices.a[1] ELSE Undef
        text == OptProp(OptProp(first, "message"), "content")
    IN  IF text \in {Undef, JNull} THEN JStr(<<>>) ELSE text

\* The last (up to 5) of the exchanges in h, oldest first.
LastFive(h) == SubSeq(h, (IF Len(h) > 5 THEN Len(h) - 4 ELSE 1), Len(h))

C11_MemoryChangesOnlyOn200 ==
    [][/\ (\A r \in Slots : ~Returns(r)) =>
             memory' = memory /\ appended' = appended
       /\ \A r \in Slots : Returns(r) =>
             IF answered'.response.status = 200
             THEN /\ answered'.body = reqs[r].body
                  /\ appended' = Append(appended,
                         [message |-> Trim(reqs[r].body.o["message"].s),
                          reply |-> RawText(answered'.data)])
                  /\ memory' = LastFive(appended')
             ELSE /\ answered'.response.status \in {400, 500}
                  /\ memory' = memory
                  /\ appended' = appended]_vars

\* The memory holds two exchanges, the first with the empty completion
\* text; a request whose call was made and whose reply was parsed has ended
\* with 500 without touching them, while another request awaits its body.
C11_BothAppendsKept ==
    /\ Len(memory) = 2
    /\ memory[1].reply = JStr(<<>>)
    /\ memory[2].reply # JStr(<<>>)
    /\ memory[1].message = <<"a">>
    /\ answered.pc = "done"
    /\ answered.response.status = 500
    /\ answered.calls # <<>>
    /\ answered.jsonReply # Undef
    /\ \E r \in Slots : reqs[r].pc = "json"

========================================================================
